---- MODULE Spec2Model ----
(***************************************************************************)
(* Browser-side fund dashboard: four forms (fund list, fund info,          *)
(* optimize, backtest) whose submit handlers fetch from an HTTP API and    *)
(* render the parsed response into the page, two disclosure toggles and    *)
(* two chart canvases.  JavaScript runs one handler at a time, so every    *)
(* action below is one run-to-completion step of the event loop: a submit  *)
(* handler up to its first await, the continuation after an await, or the  *)
(* dispatch of one click to every listener registered on the button.       *)
(***************************************************************************)
EXTENDS Integers, Sequences, FiniteSets, TLC

VARIABLES
    inflight,               \* submitted handlers suspended at an await, in submission order
    fundList,               \* text of the <li> children of #fundList, in document order
    toggleFundListDisplay,  \* #toggleFundList.style.display
    toggleFundListText,     \* #toggleFundList.textContent
    toggleFundListClick,    \* click listeners on #toggleFundList: the `funds` each closure captured
    fundInfoContent,        \* #fundInfoContent.textContent
    toggleFundInfoText,     \* #toggleFundInfo.textContent
    toggleFundInfoClick,    \* click listeners on #toggleFundInfo: the fundInfo each closure captured
    optimizeResultContent,  \* #optimizeResultContent.textContent
    optimizeChartInstance,  \* module variable: index into charts, 0 for null
    backtestResultContent,  \* #backtestResultContent.textContent
    backtestLoading,        \* #backtestLoading.style.display
    charts,                 \* every Chart constructed so far, in construction order
    chartLib,               \* what the loaded Chart build does on a canvas already in use
    results,                \* #results.innerHTML, written by displayResults of main.js
    wire,                   \* HTTP requests issued by fetch() and not yet answered
    lastEvent,              \* history: the step taken last
    lastFunds,              \* history: the sequence displayFunds rendered last, and whether
                            \* the last displayFunds call returned normally
    lastInfo,               \* history: the object displayFundInfo rendered last
    infoTrail               \* history: what #toggleFundInfo showed before each of the last clicks

vars == <<inflight, fundList, toggleFundListDisplay, toggleFundListText,
          toggleFundListClick, fundInfoContent, toggleFundInfoText,
          toggleFundInfoClick, optimizeResultContent, optimizeChartInstance,
          backtestResultContent, backtestLoading, charts, chartLib, results, wire,
          lastEvent, lastFunds, lastInfo, infoTrail>>

fundVars  == <<fundList, toggleFundListDisplay, toggleFundListText, toggleFundListClick>>
infoVars  == <<fundInfoContent, toggleFundInfoText, toggleFundInfoClick>>
chartVars == <<optimizeResultContent, optimizeChartInstance, backtestResultContent, charts>>

(***************************************************************************)
(* Bounds of the model.                                                    *)
(***************************************************************************)
MaxInFlight == 2    \* handlers suspended at an await at one time
MaxRenders == 3     \* click listeners registered on one toggle button
MaxCharts == 3      \* Chart objects constructed
MaxExtra == 2       \* longest fund list is MAX_FUNDS_TO_SHOW + MaxExtra
MaxWeeks == 2       \* longest value series is sampleInterval * MaxWeeks + 1
MaxCodes == 2       \* most fund codes in one weights mapping of /api/optimize

(***************************************************************************)
(* Program constants.                                                      *)
(***************************************************************************)
MAX_FUNDS_TO_SHOW == 10
sampleInterval == 7

ShowMore == "show-more"          \* label set at lines 37 and 58
ShowLess == "collapse"           \* label set at line 49
ExpandInfo == "expand-full"      \* label set at lines 96 and 105
CollapseInfo == "collapse-full"  \* label set at line 102

Forms == {"fund", "info", "optimize", "backtest"}

(***************************************************************************)
(* JavaScript values.  A parsed `result.data` is a record whose `defined`  *)
(* field says whether the property exists; an object is the sequence of    *)
(* its <<key, value>> entries in insertion order.                          *)
(***************************************************************************)
Min(a, b) == IF a < b THEN a ELSE b

\* Array.prototype.slice(from, to) with 0-based, end-exclusive indices.
Slice(s, from, to) ==
    LET hi == Min(to, Len(s))
    IN  IF from >= hi THEN << >> ELSE [i \in 1..(hi - from) |-> s[from + i]]

\* obj[key]: the value of the first entry with that key, "undefined" if none.
Get(obj, key) ==
    IF \E i \in 1..Len(obj) : obj[i][1] = key
    THEN obj[CHOOSE i \in 1..Len(obj) : obj[i][1] = key /\ \A j \in 1..(i - 1) : obj[j][1] # key][2]
    ELSE "undefined"

\* JSON.stringify of an object drops the properties whose value is undefined.
RECURSIVE DropUndefined(_)
DropUndefined(obj) ==
    IF obj = << >> THEN << >>
    ELSE IF Head(obj)[2] = "undefined" THEN DropUndefined(Tail(obj))
         ELSE <<Head(obj)>> \o DropUndefined(Tail(obj))

EmptyText == [kind |-> "empty", body |-> << >>]

\* obj has an own property `key`.
HasKey(obj, key) == \E i \in 1..Len(obj) : obj[i][1] = key

\* The value of a property whose value is itself an object or an array.
Member(obj, key) == obj[CHOOSE i \in 1..Len(obj) : obj[i][1] = key][2]

\* textContent = JSON.stringify(data, null, 2) for a parsed `result.data`:
\* stringify gives undefined for undefined, and textContent, a nullable
\* string, takes undefined as null, that is as the empty text.
JsonText(data) == IF data.defined THEN [kind |-> "json", body |-> data.value] ELSE EmptyText

\* textContent = JSON.stringify(obj, null, 2) for an object.
StringifyObject(obj) == [kind |-> "json", body |-> DropUndefined(obj)]

(***************************************************************************)
(* The API server, an external collaborator: what a request can be         *)
(* answered with.  fetch() rejects on a network failure and resolves on    *)
(* any HTTP status; response.json() rejects on a body that is not JSON.    *)
(***************************************************************************)
NoData == [defined |-> FALSE, value |-> << >>]

FundTypes == {"stock", "bond"}
FundLens == {0, MAX_FUNDS_TO_SHOW, MAX_FUNDS_TO_SHOW + 1, MAX_FUNDS_TO_SHOW + MaxExtra}
Funds(t, L) == [i \in 1..L |-> <<t, i>>]

\* `result.data` of GET /funds: the list on success, absent in an error body.
FundBodies(arg, resp) ==
    IF resp = "ok" THEN {[defined |-> TRUE, value |-> Funds(arg, L)] : L \in FundLens}
    ELSE {NoData}

FundCodes == {"F1", "F2"}
InfoShapes == {"full", "nomanager"}

\* A fund info object of the API: the four summary fields (the manager may be
\* missing) and one field the summary leaves out.
FundInfo(c, shape) ==
    << <<"fund_code", c>>, <<"fund_name", c \o ".name">>, <<"fund_type", c \o ".type">> >>
    \o (IF shape = "full" THEN << <<"manager", c \o ".manager">> >> ELSE << >>)
    \o << <<"nav", c \o ".nav">> >>

\* `result.data` of GET /fund/{code}.
InfoBodies(arg, resp) ==
    IF resp = "ok" THEN {[defined |-> TRUE, value |-> FundInfo(arg, sh)] : sh \in InfoShapes}
    ELSE {NoData}

FundPools == {"A,B", "C"}

\* `result.data` of POST /optimize: weights per fund code, in ten-thousandths.
\* An error body has no `data`, or a `data` without weights.
Weights(arg) ==
    IF arg = "A,B" THEN << <<"A", 6000>>, <<"B", 4000>> >> ELSE << <<"C", 10000>> >>

OptimizeBodies(arg, resp) ==
    IF resp = "ok" THEN {[defined |-> TRUE, value |-> << <<"weights", Weights(arg)>> >>]}
    ELSE {NoData, [defined |-> TRUE, value |-> << >>]}

\* `result.data` of POST /backtest: one {date, value} sample per day.
\* Series lengths: none, and around every multiple of the sampling interval.
SeriesLens ==
    {0} \cup UNION {{sampleInterval * w - 1, sampleInterval * w, sampleInterval * w + 1} :
                       w \in 1..MaxWeeks}
Series(arg, L) == [i \in 1..L |-> [date |-> i, value |-> (IF arg = "A,B" THEN 100 ELSE 200) + i]]

BacktestBodies(arg, resp) ==
    IF resp = "ok"
    THEN {[defined |-> TRUE, value |-> << <<"portfolio_value", Series(arg, L)>> >>] : L \in SeriesLens}
    ELSE {NoData, [defined |-> TRUE, value |-> << >>]}

(***************************************************************************)
(* Submit handlers, lines 4-16, 67-77, 111-134, 169-198: the part before   *)
(* the first await, the two awaits, and the catch / finally blocks.        *)
(***************************************************************************)
InFlight(form) == {i \in 1..Len(inflight) : inflight[i].form = form}

Remove(s, i) == [k \in 1..(Len(s) - 1) |-> IF k < i THEN s[k] ELSE s[k + 1]]

\* The handler at position i is done: it leaves the in-flight list.  When it
\* rendered its response, the handlers of the same form submitted before it
\* and still suspended are marked with the argument that overtook them.
Settle(i, done) ==
    Remove([k \in 1..Len(inflight) |->
               IF done /\ k < i /\ inflight[k].form = inflight[i].form
               THEN [inflight[k] EXCEPT !.passedBy = inflight[i].arg] ELSE inflight[k]], i)

\* The step taken last: what happened to which handler, with the response
\* kind and the parsed `result.data` where there is one.
Event(kind, r, resp, data, done) ==
    [kind |-> kind, form |-> r.form, arg |-> r.arg, resp |-> resp,
     passedBy |-> r.passedBy, data |-> data, rendered |-> done]

NoRequest(form) == [form |-> form, arg |-> "", pc |-> "none", passedBy |-> ""]

\* A step that renders nothing and ends no handler.
Idle == Event("idle", NoRequest(""), "none", NoData, TRUE)

\* Room left for one more submission of the form within the model's bounds.
Budget(form) ==
    /\ Len(inflight) < MaxInFlight
    /\ form = "fund" => Len(toggleFundListClick) + Cardinality(InFlight("fund")) < MaxRenders
    /\ form = "info" => Len(toggleFundInfoClick) + Cardinality(InFlight("info")) < MaxRenders
    /\ form \in {"optimize", "backtest"} =>
           Len(charts) + Cardinality(InFlight("optimize") \cup InFlight("backtest")) < MaxCharts

\* fetch(url): one HTTP request goes out (lines 10, 71, 117, 179; main.js line 9).
Issue(w) == w + 1

\* The request is answered, or has failed: it is off the wire.
Answered(w) == w - 1

\* The catch blocks (lines 13-15, 74-76, 131-133, 193-195; main.js 23-25) log
\* the error and issue nothing.
Catch_Retry(w) == w + 1
Catch(w) == w

\* The requests on the wire after a handler's try block ended: the catch block
\* has run unless the response was rendered.
Caught(done) == IF done THEN wire ELSE Catch(wire)

\* finally block of the backtest handler (line 196); the other handlers have none.
Finally_Skip(form) == UNCHANGED backtestLoading
Finally(form) ==
    IF form = "backtest" THEN backtestLoading' = "none" ELSE UNCHANGED backtestLoading

(***************************************************************************)
(* displayFunds, lines 20-64.                                              *)
(***************************************************************************)
\* Line 26: the items rendered at once.
InitialFunds(funds) == Slice(funds, 0, MAX_FUNDS_TO_SHOW)

\* Line 42: the items appended by the expanding click.
RemainingFunds(funds) == Slice(funds, MAX_FUNDS_TO_SHOW, Len(funds))

\* Lines 52-57: every <li> at index >= MAX_FUNDS_TO_SHOW is removed.
CollapseList(list) == Slice(list, 0, MAX_FUNDS_TO_SHOW)

\* Lines 39-60: one click listener, closed over `funds`, run on the list and label.
FundListClick(funds, st) ==
    IF st.text = ShowMore
    THEN [list |-> st.list \o RemainingFunds(funds), text |-> ShowLess]
    ELSE [list |-> CollapseList(st.list), text |-> ShowMore]

\* A click event runs the listeners of the button in registration order.
RECURSIVE DispatchFundClick(_, _)
DispatchFundClick(listeners, st) ==
    IF listeners = << >> THEN st
    ELSE DispatchFundClick(Tail(listeners), FundListClick(Head(listeners), st))

\* Lines 35-63: a list longer than the preview shows the button and registers a
\* listener; a shorter one hides the button.
ShowsToggle_AtLeast(funds) == Len(funds) >= MAX_FUNDS_TO_SHOW
ShowsToggle(funds) == Len(funds) > MAX_FUNDS_TO_SHOW

\* displayFunds(data): TRUE in its last argument when it returns normally.
\* Line 23 empties the list before line 26 throws on a missing `data`.
DisplayFunds(data, done) ==
    IF ~data.defined
    THEN /\ done = FALSE
         /\ fundList' = << >>
         /\ lastFunds' = [lastFunds EXCEPT !.rendered = FALSE]
         /\ UNCHANGED <<toggleFundListDisplay, toggleFundListText, toggleFundListClick>>
    ELSE /\ done = TRUE
         /\ fundList' = InitialFunds(data.value)
         /\ lastFunds' = [rendered |-> TRUE, value |-> data.value, clicks |-> 0]
         /\ IF ShowsToggle(data.value)
            THEN /\ toggleFundListDisplay' = "block"
                 /\ toggleFundListText' = ShowMore
                 /\ toggleFundListClick' = Append(toggleFundListClick, data.value)
            ELSE /\ toggleFundListDisplay' = "none"
                 /\ UNCHANGED <<toggleFundListText, toggleFundListClick>>

\* Lines 10-12: response.json() resolved, displayFunds runs on result.data.
FundJsonResolve ==
    \E i \in InFlight("fund") : \E done \in BOOLEAN : \E resp \in {"ok", "non2xx"} :
      /\ inflight[i].pc = "json"
      /\ \E data \in FundBodies(inflight[i].arg, resp) :
            /\ DisplayFunds(data, done)
            /\ lastEvent' = Event("response", inflight[i], resp, data, done)
      /\ inflight' = Settle(i, done)
      /\ wire' = Caught(done)
      /\ infoTrail' = << >>
      /\ UNCHANGED <<infoVars, chartVars, backtestLoading, chartLib, results, lastInfo>>

\* The user clicks #toggleFundList, which a display of 'none' takes off the page.
ClickToggleFundList ==
    /\ toggleFundListDisplay # "none"
    /\ LET st == DispatchFundClick(toggleFundListClick,
                                   [list |-> fundList, text |-> toggleFundListText])
       IN  /\ fundList' = st.list
           /\ toggleFundListText' = st.text
    /\ lastFunds' = [lastFunds EXCEPT !.clicks = Min(@ + 1, 3)]
    /\ lastEvent' = Event("click", NoRequest("fund"), "none", NoData, TRUE)
    /\ infoTrail' = << >>
    /\ UNCHANGED <<inflight, toggleFundListDisplay, toggleFundListClick, infoVars,
                   chartVars, backtestLoading, chartLib, results, wire, lastInfo>>

(***************************************************************************)
(* The parts of the four submit handlers that do not depend on the form.   *)
(***************************************************************************)
\* The backtest handler forwards its pool and never reads it again: one pool.
Args(form) ==
    CASE form = "fund" -> FundTypes
      [] form = "info" -> FundCodes
      [] form = "optimize" -> FundPools
      [] form = "backtest" -> {"A,B"}
      [] form = "results" -> {"A,B"}

\* Lines 4-10, 67-71, 111-127, 169-189: the handler runs up to `await fetch`.
\* The backtest handler shows its loading indicator first (line 176).
Submit(form) ==
    /\ Budget(form)
    /\ \E arg \in Args(form) :
         inflight' = Append(inflight, [form |-> form, arg |-> arg, pc |-> "fetch", passedBy |-> ""])
    /\ lastEvent' = Idle
    /\ wire' = Issue(wire)
    /\ IF form = "backtest" THEN backtestLoading' = "block" ELSE UNCHANGED backtestLoading
    /\ infoTrail' = << >>
    /\ UNCHANGED <<fundVars, infoVars, chartVars, chartLib, results, lastFunds, lastInfo>>

\* fetch() rejects (network failure): the catch block logs, nothing is rendered.
FetchReject(form) ==
    \E i \in InFlight(form) :
      /\ inflight[i].pc = "fetch"
      /\ inflight' = Settle(i, FALSE)
      /\ lastEvent' = Event("failure", inflight[i], "network", NoData, FALSE)
      /\ wire' = Catch(Answered(wire))
      /\ Finally(form)
      /\ infoTrail' = << >>
      /\ UNCHANGED <<fundVars, infoVars, chartVars, chartLib, results, lastFunds, lastInfo>>

\* fetch() resolves with a response of any status; the handler awaits json().
\* The handler never reads the status, and the body only once json() settles.
FetchResolve(form) ==
    \E i \in InFlight(form) :
      /\ inflight[i].pc = "fetch"
      /\ inflight' = [inflight EXCEPT ![i].pc = "json"]
      /\ lastEvent' = Idle
      /\ wire' = Answered(wire)
      /\ infoTrail' = << >>
      /\ UNCHANGED <<fundVars, infoVars, chartVars, backtestLoading, chartLib, results,
                     lastFunds, lastInfo>>

\* response.json() rejects (the body is not JSON): the catch block logs.
JsonReject(form) ==
    \E i \in InFlight(form) :
      /\ inflight[i].pc = "json"
      /\ inflight' = Settle(i, FALSE)
      /\ lastEvent' = Event("failure", inflight[i], "nonjson", NoData, FALSE)
      /\ wire' = Catch(wire)
      /\ Finally(form)
      /\ infoTrail' = << >>
      /\ UNCHANGED <<fundVars, infoVars, chartVars, chartLib, results, lastFunds, lastInfo>>

(***************************************************************************)
(* displayFundInfo, lines 79-108.                                          *)
(***************************************************************************)
\* Lines 84-89: the summary object; its four keys are the page's captions of
\* the code, name, type and manager.
Summary(fundInfo) ==
    << <<"caption.code", Get(fundInfo, "fund_code")>>,
       <<"caption.name", Get(fundInfo, "fund_name")>>,
       <<"caption.type", Get(fundInfo, "fund_type")>>,
       <<"caption.manager", Get(fundInfo, "manager")>> >>

\* Line 92.
FullInfo(fundInfo) == fundInfo

\* Lines 95-96 and 104-105: the summary with the label that offers the full object.
SummaryShown_Full(fundInfo) ==
    [content |-> StringifyObject(FullInfo(fundInfo)), text |-> ExpandInfo]
SummaryShown(fundInfo) ==
    [content |-> StringifyObject(Summary(fundInfo)), text |-> ExpandInfo]

\* Lines 101-102: the full object with the label that offers the summary.
FullShown(fundInfo) ==
    [content |-> StringifyObject(FullInfo(fundInfo)), text |-> CollapseInfo]

\* Lines 99-107: one click listener, closed over summary and fullInfo.
FundInfoClick_KeepLabel(fundInfo, st) ==
    IF st.text = ExpandInfo THEN FullShown(fundInfo)
    ELSE [SummaryShown(fundInfo) EXCEPT !.text = st.text]
FundInfoClick(fundInfo, st) ==
    IF st.text = ExpandInfo THEN FullShown(fundInfo) ELSE SummaryShown(fundInfo)

\* A click runs every registered listener, in registration order.
DispatchInfoClick_FirstOnly(listeners, st) ==
    IF listeners = << >> THEN st ELSE FundInfoClick(Head(listeners), st)
RECURSIVE DispatchInfoClick(_, _)
DispatchInfoClick(listeners, st) ==
    IF listeners = << >> THEN st
    ELSE DispatchInfoClick(Tail(listeners), FundInfoClick(Head(listeners), st))

\* displayFundInfo(data): line 85 throws on a missing `data` before anything
\* is written; otherwise the summary is shown and one more listener registered.
DisplayFundInfo(data, done) ==
    IF ~data.defined
    THEN /\ done = FALSE
         /\ UNCHANGED <<infoVars, lastInfo>>
    ELSE /\ done = TRUE
         /\ fundInfoContent' = SummaryShown(data.value).content
         /\ toggleFundInfoText' = SummaryShown(data.value).text
         /\ toggleFundInfoClick' = Append(toggleFundInfoClick, data.value)
         /\ lastInfo' = [rendered |-> TRUE, value |-> data.value, clicks |-> 0]

\* Lines 71-73: response.json() resolved, displayFundInfo runs on result.data.
InfoJsonResolve ==
    \E i \in InFlight("info") : \E done \in BOOLEAN : \E resp \in {"ok", "non2xx"} :
      /\ inflight[i].pc = "json"
      /\ \E data \in InfoBodies(inflight[i].arg, resp) :
            /\ DisplayFundInfo(data, done)
            /\ lastEvent' = Event("response", inflight[i], resp, data, done)
      /\ inflight' = Settle(i, done)
      /\ wire' = Caught(done)
      /\ infoTrail' = << >>
      /\ UNCHANGED <<fundVars, chartVars, backtestLoading, chartLib, results, lastFunds>>

\* The user clicks #toggleFundInfo.
ClickToggleFundInfo ==
    /\ LET st == DispatchInfoClick(toggleFundInfoClick,
                                   [content |-> fundInfoContent, text |-> toggleFundInfoText])
       IN  /\ fundInfoContent' = st.content
           /\ toggleFundInfoText' = st.text
    /\ lastInfo' = [lastInfo EXCEPT !.clicks = Min(@ + 1, 3)]
    /\ lastEvent' = Event("click", NoRequest("info"), "none", NoData, TRUE)
    /\ LET shown == [content |-> fundInfoContent, text |-> toggleFundInfoText]
       IN  infoTrail' = IF Len(infoTrail) = 2 THEN <<infoTrail[2], shown>>
                        ELSE Append(infoTrail, shown)
    /\ UNCHANGED <<inflight, toggleFundInfoClick, fundVars, chartVars, backtestLoading,
                   chartLib, results, wire, lastFunds>>

(***************************************************************************)
(* Charts.  `new Chart(ctx, config)` is the Chart.js constructor; a build  *)
(* of the library either refuses a canvas that holds a chart not yet       *)
(* destroyed (it throws) or draws a second chart over it.                  *)
(***************************************************************************)
LiveIn(cs, canvas) == {c \in 1..Len(cs) : cs[c].canvas = canvas /\ ~cs[c].destroyed}
Live(canvas) == LiveIn(charts, canvas)

\* Whether the constructor throws for this canvas, given the charts so far.
ChartThrows(cs, canvas) == chartLib = "throws" /\ LiveIn(cs, canvas) # {}

\* chart.destroy(), lines 142-144: a null reference is skipped.
Destroy_Skip(cs, inst) == cs
Destroy(cs, inst) == IF inst = 0 THEN cs ELSE [cs EXCEPT ![inst].destroyed = TRUE]

\* The chart a constructor call adds.
NewChart(canvas, labels, data) ==
    [canvas |-> canvas, destroyed |-> FALSE, labels |-> labels, data |-> data]

\* Object.keys / Object.values, lines 149 and 152.
Keys(obj) == [i \in 1..Len(obj) |-> obj[i][1]]
Values_First(obj) == IF obj = << >> THEN << >> ELSE <<obj[1][2]>>
Values(obj) == [i \in 1..Len(obj) |-> obj[i][2]]

\* renderOptimizeChart(data), lines 138-166.  The old instance is destroyed
\* first; building the config throws when data or data.weights is missing
\* (and the constructor may throw), which leaves optimizeChartInstance
\* referring to the destroyed chart.
RenderOptimizeChart(data, done) ==
    LET cleared == Destroy(charts, optimizeChartInstance)
    IN  IF ~data.defined \/ ~HasKey(data.value, "weights") \/ ChartThrows(cleared, "optimizeChart")
        THEN /\ done = FALSE
             /\ charts' = cleared
             /\ UNCHANGED optimizeChartInstance
        ELSE LET w == Member(data.value, "weights")
             IN  /\ done = TRUE
                 /\ charts' = Append(cleared, NewChart("optimizeChart", Keys(w), Values(w)))
                 /\ optimizeChartInstance' = Len(charts) + 1

\* Lines 128-130: the result text is written, then the chart is rendered.
OptimizeJsonResolve ==
    \E i \in InFlight("optimize") : \E done \in BOOLEAN : \E resp \in {"ok", "non2xx"} :
      /\ inflight[i].pc = "json"
      /\ \E data \in OptimizeBodies(inflight[i].arg, resp) :
            /\ optimizeResultContent' = JsonText(data)
            /\ RenderOptimizeChart(data, done)
            /\ lastEvent' = Event("response", inflight[i], resp, data, done)
      /\ inflight' = Settle(i, done)
      /\ wire' = Caught(done)
      /\ infoTrail' = << >>
      /\ UNCHANGED <<fundVars, infoVars, backtestResultContent, backtestLoading, chartLib,
                     results, lastFunds, lastInfo>>

\* Lines 203-208: every sampleInterval-th sample, from index 0 (here 1).
RECURSIVE Sample_SkipFirst(_, _)
Sample_SkipFirst(series, i) ==
    IF i + sampleInterval < Len(series)
    THEN <<series[i + sampleInterval + 1]>> \o Sample_SkipFirst(series, i + sampleInterval)
    ELSE << >>
RECURSIVE Sample(_, _)
Sample(series, i) ==
    IF i < Len(series) THEN <<series[i + 1]>> \o Sample(series, i + sampleInterval) ELSE << >>

\* renderBacktestChart(data), lines 200-238.  Line 202 throws on a missing
\* data, line 206 on a missing portfolio_value; line 213 constructs a chart
\* on the canvas without looking for an earlier one.
RenderBacktestChart(data, done) ==
    IF ~data.defined \/ ~HasKey(data.value, "portfolio_value") \/ ChartThrows(charts, "backtestChart")
    THEN /\ done = FALSE
         /\ UNCHANGED charts
    ELSE LET sampled == Sample(Member(data.value, "portfolio_value"), 0)
         IN  /\ done = TRUE
             /\ charts' = Append(charts,
                    NewChart("backtestChart",
                             [k \in 1..Len(sampled) |-> sampled[k].date],
                             [k \in 1..Len(sampled) |-> sampled[k].value]))

\* Lines 190-196: the result text, the chart, then the finally block.
BacktestJsonResolve ==
    \E i \in InFlight("backtest") : \E done \in BOOLEAN : \E resp \in {"ok", "non2xx"} :
      /\ inflight[i].pc = "json"
      /\ \E data \in BacktestBodies(inflight[i].arg, resp) :
            /\ backtestResultContent' = JsonText(data)
            /\ RenderBacktestChart(data, done)
            /\ lastEvent' = Event("response", inflight[i], resp, data, done)
      /\ inflight' = Settle(i, done)
      /\ wire' = Caught(done)
      /\ Finally("backtest")
      /\ infoTrail' = << >>
      /\ UNCHANGED <<fundVars, infoVars, optimizeResultContent, optimizeChartInstance,
                     chartLib, results, lastFunds, lastInfo>>

(***************************************************************************)
(* main.js: the parallel script, whose optimize form posts to              *)
(* /api/optimize and renders `result.weights` as a table of percentages.   *)
(***************************************************************************)
\* Fund codes the server answers with; two of them are canonical integers.
Codes == {"A", "B", "110022", "519671"}

\* The array index a property key denotes, -1 for a key that is no array index.
IndexKey(code) ==
    CASE code = "110022" -> 110022
      [] code = "519671" -> 519671
      [] OTHER -> -1

\* The weights a response gives to n codes, in hundred-thousandths (60000
\* is 0.6): an even split, and for two codes also 0.6 / 0.4 and 1/3 / 2/3.
Splits(n) ==
    {[i \in 1..n |-> 100000 \div n]}
    \cup (IF n = 2 THEN {<<60000, 40000>>, <<33333, 66667>>} ELSE {})

\* The `weights` member of a response body, in the order of the JSON text:
\* up to MaxCodes distinct codes.
WeightMappings ==
    UNION {{[i \in 1..n |-> <<cs[i], ws[i]>>] :
               cs \in {c \in [1..n -> Codes] : \A i, j \in 1..n : i # j => c[i] # c[j]},
               ws \in Splits(n)} : n \in 0..MaxCodes}

\* The JSON body of POST /api/optimize: {weights: ...} on success, an error
\* object without weights otherwise.
ResultBodies(arg, resp) ==
    IF resp = "ok" THEN {[defined |-> TRUE, value |-> << <<"weights", m>> >>] : m \in WeightMappings}
    ELSE {[defined |-> TRUE, value |-> << >>]}

\* The entries whose key is an array index, in ascending order of the index.
RECURSIVE SortByIndex(_)
SortByIndex(entries) ==
    IF entries = << >> THEN << >>
    ELSE LET least == CHOOSE i \in 1..Len(entries) :
                          \A j \in 1..Len(entries) : IndexKey(entries[i][1]) <= IndexKey(entries[j][1])
         IN  <<entries[least]>> \o SortByIndex(Remove(entries, least))

IsIndexEntry(e) == IndexKey(e[1]) >= 0
IsNameEntry(e) == IndexKey(e[1]) < 0

\* Object.entries of the object response.json() built from a JSON mapping
\* (main.js lines 21 and 35): own property keys enumerate array indices first,
\* in ascending order, then the other keys in the order they were created,
\* which is the order of the JSON text.
ObjectEntries_TextOrder(mapping) == mapping
ObjectEntries(mapping) ==
    SortByIndex(SelectSeq(mapping, IsIndexEntry)) \o SelectSeq(mapping, IsNameEntry)

Digit(d) ==
    CASE d = 0 -> "0" [] d = 1 -> "1" [] d = 2 -> "2" [] d = 3 -> "3" [] d = 4 -> "4"
      [] d = 5 -> "5" [] d = 6 -> "6" [] d = 7 -> "7" [] d = 8 -> "8" [] d = 9 -> "9"

RECURSIVE Decimal(_)
Decimal(n) == IF n < 10 THEN Digit(n) ELSE Decimal(n \div 10) \o Digit(n % 10)

\* (weight * 100).toFixed(2), main.js line 36, for a weight in hundred-
\* thousandths: the nearest number of hundredths, with two decimals.
ToFixed2_Truncate(w) ==
    LET n == w \div 10
    IN  Decimal(n \div 100) \o "." \o Digit((n \div 10) % 10) \o Digit(n % 10)
ToFixed2(w) ==
    LET n == (w + 5) \div 10
    IN  Decimal(n \div 100) \o "." \o Digit((n \div 10) % 10) \o Digit(n % 10)

\* Lines 35-37: one table row per entry, the code and the percentage.
Rows(entries) == [k \in 1..Len(entries) |-> <<entries[k][1], ToFixed2(entries[k][2]) \o "%">>]

\* displayResults(result), main.js lines 28-41.  Line 35 throws on a result
\* without weights, before line 40 writes anything.
DisplayResults(result, done) ==
    IF ~result.defined \/ ~HasKey(result.value, "weights")
    THEN /\ done = FALSE
         /\ UNCHANGED results
    ELSE /\ done = TRUE
         /\ results' = [kind |-> "table",
                        rows |-> Rows(ObjectEntries(Member(result.value, "weights")))]

\* main.js lines 21-22: response.json() resolved, displayResults runs on result.
ResultsJsonResolve ==
    \E i \in InFlight("results") : \E done \in BOOLEAN : \E resp \in {"ok", "non2xx"} :
      /\ inflight[i].pc = "json"
      /\ \E body \in ResultBodies(inflight[i].arg, resp) :
            /\ DisplayResults(body, done)
            /\ lastEvent' = Event("response", inflight[i], resp, body, done)
      /\ inflight' = Settle(i, done)
      /\ wire' = Caught(done)
      /\ infoTrail' = << >>
      /\ UNCHANGED <<fundVars, infoVars, chartVars, backtestLoading, chartLib, lastFunds, lastInfo>>

(***************************************************************************)
(* The page after the script has run: nothing rendered, no chart, no       *)
(* listener on a toggle, no inline style set.                              *)
(***************************************************************************)
Init ==
    /\ inflight = << >>
    /\ fundList = << >>
    /\ toggleFundListDisplay = ""
    /\ toggleFundListText = ""
    /\ toggleFundListClick = << >>
    /\ fundInfoContent = EmptyText
    /\ toggleFundInfoText = ""
    /\ toggleFundInfoClick = << >>
    /\ optimizeResultContent = EmptyText
    /\ optimizeChartInstance = 0
    /\ backtestResultContent = EmptyText
    /\ backtestLoading = ""
    /\ charts = << >>
    /\ chartLib \in {"throws", "stacks"}
    /\ results = [kind |-> "empty", rows |-> << >>]
    /\ wire = 0
    /\ lastEvent = Idle
    /\ lastFunds = [rendered |-> FALSE, value |-> << >>, clicks |-> 0]
    /\ lastInfo = [rendered |-> FALSE, value |-> << >>, clicks |-> 0]
    /\ infoTrail = << >>

\* The fund list form and its toggle.
NextFunds ==
    \/ Submit("fund") \/ FetchReject("fund") \/ FetchResolve("fund") \/ JsonReject("fund")
    \/ FundJsonResolve \/ ClickToggleFundList

\* The fund info form and its toggle.
NextInfo ==
    \/ Submit("info") \/ FetchReject("info") \/ FetchResolve("info") \/ JsonReject("info")
    \/ InfoJsonResolve \/ ClickToggleFundInfo

\* The optimize form.
NextOptimize ==
    \/ Submit("optimize") \/ FetchReject("optimize") \/ FetchResolve("optimize")
    \/ JsonReject("optimize") \/ OptimizeJsonResolve

\* The backtest form.
NextBacktest ==
    \/ Submit("backtest") \/ FetchReject("backtest") \/ FetchResolve("backtest")
    \/ JsonReject("backtest") \/ BacktestJsonResolve

\* The optimize form of main.js.
NextResults ==
    \/ Submit("results") \/ FetchReject("results") \/ FetchResolve("results")
    \/ JsonReject("results") \/ ResultsJsonResolve

Next == NextFunds \/ NextInfo \/ NextOptimize \/ NextBacktest

\* The whole page.
Spec == Init /\ [][Next]_vars

\* The forms share no element and no variable, so each is also checked alone,
\* and the two chart forms together.
SpecFunds == Init /\ [][NextFunds]_vars
SpecInfo == Init /\ [][NextInfo]_vars
SpecOptimize == Init /\ [][NextOptimize]_vars
SpecBacktest == Init /\ [][NextBacktest]_vars
SpecCharts == Init /\ [][NextOptimize \/ NextBacktest]_vars

\* A backtest handler suspended at an await is resumed: its promise settles
\* and the rest of the try block, the catch block and the finally block run.
Complete ==
    \/ FetchReject("backtest") \/ FetchResolve("backtest")
    \/ JsonReject("backtest") \/ BacktestJsonResolve

\* The backtest form when every request submitted is answered or fails: the
\* event loop resumes a suspended handler once its promise has settled.
SpecBacktestLive == SpecBacktest /\ WF_vars(Complete)

\* The page of main.js, a script of its own with its own optimize form.
SpecResults == Init /\ [][NextResults]_vars

(***************************************************************************)
(* Properties.                                                             *)
(***************************************************************************)
Rendered(form) ==
    lastEvent.kind = "response" /\ lastEvent.form = form /\ lastEvent.rendered

Canvases == {"optimizeChart", "backtestChart"}

\* C1: in every reachable state each canvas holds at most one chart that was
\* created on it and not yet destroyed.
C1_AtMostOneLiveChartPerCanvas ==
    \A canvas \in Canvases : Cardinality(Live(canvas)) <= 1

\* C2: right after a successful renderOptimizeChart exactly one chart on the
\* optimize canvas is live: the newest one, which optimizeChartInstance refers
\* to and which shows the codes of the weights rendered; every earlier chart
\* of the canvas has been destroyed.
C2_OneLiveOptimizeChart ==
    Rendered("optimize") =>
        /\ optimizeChartInstance = Len(charts)
        /\ Live("optimizeChart") = {optimizeChartInstance}
        /\ charts[optimizeChartInstance].labels = Keys(Member(lastEvent.data.value, "weights"))

\* C2 witness: a third successful render, with two earlier charts destroyed.
C2_ThirdRender ==
    /\ Rendered("optimize")
    /\ Len(charts) >= 3
    /\ Live("optimizeChart") = {Len(charts)}

\* C3: for a rendered sequence of more than 10 funds the list shows items
\* [0,10) right after the render, all items after one click on the toggle and
\* items [0,10) again after a second click.
C3_PreviewAllPreview ==
    (lastFunds.rendered /\ Len(lastFunds.value) > 10) =>
        /\ lastFunds.clicks = 0 => fundList = Slice(lastFunds.value, 0, 10)
        /\ lastFunds.clicks = 1 => fundList = lastFunds.value
        /\ lastFunds.clicks = 2 => fundList = Slice(lastFunds.value, 0, 10)

\* C4: after displayFunds has rendered a sequence of at most 10 funds, whatever
\* was rendered or clicked before, the toggle is hidden and the list shows
\* exactly the items of that sequence in order.
C4_ShortListHidesToggle ==
    (lastFunds.rendered /\ Len(lastFunds.value) <= 10) =>
        /\ toggleFundListDisplay = "none"
        /\ fundList = lastFunds.value

\* C4 witness: a list of exactly 10 funds rendered after a longer one, whose
\* listener is still registered.
C4_TenAfterLonger ==
    /\ Rendered("fund")
    /\ Len(lastFunds.value) = 10
    /\ fundList = lastFunds.value
    /\ toggleFundListClick # << >>
    /\ toggleFundListDisplay = "none"

\* What the fund info toggle shows now.
InfoShown == [content |-> fundInfoContent, text |-> toggleFundInfoText]

\* The two projections of the object rendered last, with their labels.
SummaryOfLast ==
    [content |-> [kind |-> "json", body |-> DropUndefined(Summary(lastInfo.value))],
     text |-> ExpandInfo]
FullOfLast ==
    [content |-> [kind |-> "json", body |-> lastInfo.value], text |-> CollapseInfo]

\* C5: once displayFundInfo has rendered an object, each click on the toggle
\* swaps the summary with the 'show full' label for the full object with the
\* 'show summary' label, and back.
C5_ClickSwapsProjection ==
    (lastInfo.rendered /\ lastEvent.kind = "click" /\ infoTrail # << >>) =>
        LET before == infoTrail[Len(infoTrail)]
        IN  /\ before = SummaryOfLast => InfoShown = FullOfLast
            /\ before = FullOfLast => InfoShown = SummaryOfLast

\* C6: two consecutive clicks on the fund info toggle bring back the content
\* and the label shown before the two clicks.
C6_TwoClicksRestore ==
    Len(infoTrail) = 2 => InfoShown = infoTrail[1]

\* C6 witness: two clicks with three listeners registered, the first of which
\* changed what is shown.
C6_TwoClicksThreeListeners ==
    /\ Len(infoTrail) = 2
    /\ Len(toggleFundInfoClick) = 3
    /\ infoTrail[2] # infoTrail[1]
    /\ InfoShown = infoTrail[1]

\* C7: right after displayFundInfo has rendered an object, the content is the
\* summary projection of that object and the label is the 'show full' label,
\* whatever was shown before.
C7_RenderResetsToSummary ==
    Rendered("info") =>
        /\ fundInfoContent =
               [kind |-> "json", body |-> DropUndefined(Summary(lastEvent.data.value))]
        /\ toggleFundInfoText = ExpandInfo

\* C7 witness: a second object rendered over an earlier one; its summary lacks
\* the manager the object does not have.
C7_SecondObjectRendered ==
    /\ Rendered("info")
    /\ Len(toggleFundInfoClick) >= 2
    /\ toggleFundInfoClick[1] # lastEvent.data.value
    /\ Len(fundInfoContent.body) = 3
    /\ toggleFundInfoText = ExpandInfo

\* Everything the page renders from responses.
Page == <<fundList, fundInfoContent, optimizeResultContent, backtestResultContent, charts>>

\* C8: a step in which a user action fails (network failure, a body that is
\* not JSON, a non-2xx response) leaves the rendered content as it was.
C8_FailureLeavesPage ==
    [][(lastEvent'.kind = "failure" \/ (lastEvent'.kind = "response" /\ lastEvent'.resp = "non2xx"))
          => Page' = Page]_vars

\* C9: whenever a response of the optimize form has been rendered, the result
\* text and the plotted weights are those of that response, also when a
\* submission made after it was rendered before it.
C9_LastResponseWins ==
    Rendered("optimize") =>
        /\ optimizeResultContent = [kind |-> "json", body |-> lastEvent.data.value]
        /\ optimizeResultContent.body = << <<"weights", Weights(lastEvent.arg)>> >>
        /\ charts[Len(charts)].data =
               [k \in 1..Len(Weights(lastEvent.arg)) |-> Weights(lastEvent.arg)[k][2]]

\* C9 witness: both submissions are handled, the one made first was rendered
\* last, after the response to a different pool, and is what the page shows.
C9_EarlierSubmissionShown ==
    /\ Rendered("optimize")
    /\ lastEvent.passedBy \notin {"", lastEvent.arg}
    /\ inflight = << >>
    /\ optimizeResultContent.body = << <<"weights", Weights(lastEvent.arg)>> >>
    /\ optimizeResultContent.body # << <<"weights", Weights(lastEvent.passedBy)>> >>

\* C10: the chart a successful renderBacktestChart creates plots exactly the
\* samples at indices 0, 7, 14, ... of the series, in order: ceil(L/7) of them.
C10_EverySeventhSample ==
    Rendered("backtest") =>
        LET series == Member(lastEvent.data.value, "portfolio_value")
            chart == charts[Len(charts)]
            n == (Len(series) + 6) \div 7
        IN  /\ Len(chart.data) = n /\ Len(chart.labels) = n
            /\ \A k \in 1..n : /\ chart.data[k] = series[7 * (k - 1) + 1].value
                               /\ chart.labels[k] = series[7 * (k - 1) + 1].date

\* C10 witness: a series of 15 samples plotted as 3, the last one at index 14.
C10_FifteenGivesThree ==
    /\ Rendered("backtest")
    /\ Len(Member(lastEvent.data.value, "portfolio_value")) = 15
    /\ Len(charts[Len(charts)].data) = 3
    /\ charts[Len(charts)].labels = <<1, 8, 15>>

\* The weights mapping of the response rendered last, in the order of its JSON text.
ResponseWeights == Member(lastEvent.data.value, "weights")

\* A weight times 100 with two decimals and a percent sign, written out.
Percent(w) ==
    CASE w = 100000 -> "100.00%"
      [] w = 60000 -> "60.00%"
      [] w = 50000 -> "50.00%"
      [] w = 40000 -> "40.00%"
      [] w = 33333 -> "33.33%"
      [] w = 66667 -> "66.67%"
      [] OTHER -> "?"

\* The position of a code in a mapping.
PositionOf(m, code) == CHOOSE i \in 1..Len(m) : m[i][1] = code

\* C11 as stated: after displayResults has rendered a weights mapping, the
\* table has exactly one row per code, in the order of the mapping as the
\* server returned it, each with the code and its percentage.
C11_RowsInResponseOrder ==
    Rendered("results") =>
        /\ results.kind = "table"
        /\ results.rows =
               [k \in 1..Len(ResponseWeights) |->
                   <<ResponseWeights[k][1], Percent(ResponseWeights[k][2])>>]

\* C11 amended: the table has exactly one row per code of the mapping, each
\* with the code and its percentage; the codes that are canonical integers
\* come first, in ascending numeric order, and the other codes follow in the
\* order of the response.  Nothing else is in the results area.
C11_RowsInEnumerationOrder ==
    Rendered("results") =>
        LET m == ResponseWeights
            rows == results.rows
        IN  /\ results.kind = "table"
            /\ Len(rows) = Len(m)
            /\ \A i \in 1..Len(m) : \E k \in 1..Len(rows) : rows[k] = <<m[i][1], Percent(m[i][2])>>
            /\ \A k, l \in 1..Len(rows) :
                 k < l =>
                   LET a == IndexKey(rows[k][1])
                       b == IndexKey(rows[l][1])
                   IN  /\ b >= 0 => (a >= 0 /\ a < b)
                       /\ (a < 0 /\ b < 0) =>
                              PositionOf(m, rows[k][1]) < PositionOf(m, rows[l][1])

\* C11 witness: the response {"A": 0.33333, "519671": 0.66667} is rendered,
\* the integer code first and its percentage rounded up.
C11_IntegerCodeFirst ==
    /\ Rendered("results")
    /\ ResponseWeights = << <<"A", 33333>>, <<"519671", 66667>> >>
    /\ results.rows = << <<"519671", "66.67%">>, <<"A", "33.33%">> >>

\* C12: every submission issues exactly one HTTP request and nothing else
\* does: the requests on the wire are those of the handlers suspended at
\* `await fetch`, one each, so a failure is followed by no further request.
C12_OneRequestPerSubmission ==
    wire = Cardinality({i \in 1..Len(inflight) : inflight[i].pc = "fetch"})

\* C12 witness: a backtest submission has just failed, and no request is out.
C12_FailedAndQuiet ==
    /\ lastEvent.kind = "failure"
    /\ lastEvent.form = "backtest"
    /\ inflight = << >>
    /\ wire = 0

\* C13: each toggle has at most one click listener registered by displayFunds
\* and displayFundInfo, the one bound to the data rendered last.
C13_OneListenerPerToggle ==
    /\ Len(toggleFundListClick) <= 1
    /\ Len(toggleFundInfoClick) <= 1
    /\ \A i \in 1..Len(toggleFundListClick) :
         lastFunds.rendered /\ ShowsToggle(lastFunds.value) => toggleFundListClick[i] = lastFunds.value
    /\ \A i \in 1..Len(toggleFundInfoClick) :
         lastInfo.rendered => toggleFundInfoClick[i] = lastInfo.value

\* C14: between events the fund list shows the first min(L,10) items or all L
\* items of the sequence rendered last, in order, and nothing else.
C14_ListOfLastSequence ==
    fundList \in {Slice(lastFunds.value, 0, 10), lastFunds.value}

\* C14 for the states in which the last displayFunds call returned normally.
C14_ListOfLastSequenceRendered ==
    lastFunds.rendered => fundList \in {Slice(lastFunds.value, 0, 10), lastFunds.value}

\* C15: between event handlers optimizeChartInstance is null or refers to a
\* chart that has not been destroyed, also after a renderOptimizeChart call
\* that threw for want of weights.
C15_InstanceNullOrLive ==
    optimizeChartInstance = 0 \/ ~charts[optimizeChartInstance].destroyed

\* C16: while a backtest request is in flight the loading indicator is shown,
\* overlapping submissions included.
C16_LoadingWhileInFlight ==
    InFlight("backtest") # {} => backtestLoading = "block"

\* No backtest handler is suspended and none has left the indicator shown
\* (the style is untouched, "", until the first submission).
BacktestQuiet == inflight = << >> /\ backtestLoading # "block"

\* C17: when every backtest request submitted completes, by a rendered
\* response, a failed request or a failed render, then once the user submits
\* no more, no request stays in flight and the loading indicator stays hidden.
C17_EventuallyQuiet ==
    []<><<Submit("backtest")>>_vars \/ <>[]BacktestQuiet

\* C17 witness: two overlapping submissions have both completed, the last by
\* a failure while rendering; nothing is in flight and the indicator is hidden.
C17_QuietAfterFailedRender ==
    /\ inflight = << >>
    /\ backtestLoading = "none"
    /\ lastEvent.kind = "response"
    /\ lastEvent.form = "backtest"
    /\ ~lastEvent.rendered
    /\ lastEvent.passedBy # ""

\* C18: once displayFundInfo has rendered an object, what is shown between
\* events is the summary or the full projection of the object rendered last,
\* and the label is the 'show summary' label exactly when it is the full one.
C18_ProjectionOfLastObject ==
    lastInfo.rendered =>
        /\ InfoShown.content \in {SummaryOfLast.content, FullOfLast.content}
        /\ toggleFundInfoText \in {ExpandInfo, CollapseInfo}
        /\ toggleFundInfoText = CollapseInfo <=> InfoShown = FullOfLast
        /\ toggleFundInfoText = ExpandInfo <=> InfoShown = SummaryOfLast

\* C18 witness: a click handled by three listeners, the earlier ones bound to
\* other objects, shows the full projection of the object rendered last.
C18_FullAfterStaleListeners ==
    /\ lastInfo.rendered
    /\ lastEvent.kind = "click"
    /\ Len(toggleFundInfoClick) = 3
    /\ toggleFundInfoClick[1] # lastInfo.value
    /\ toggleFundInfoClick[2] # lastInfo.value
    /\ InfoShown = FullOfLast
    /\ FullOfLast.content # SummaryOfLast.content

====
